---- MODULE Spec2Model ----
(***************************************************************************)
(* Model of rigel::engine::PhysicsSystem (src/engine/physics_system.cpp). *)
(*                                                                         *)
(* Spec simulates one Physical entity tick by tick, SpecFall follows a     *)
(* fall to the ground frame by frame, and SpecOrder runs one update call   *)
(* over two entities in any order and interleaving.  Velocities are floats *)
(* in the code; here they are integers counting hundredths of a pixel     *)
(* (1.0f is 100, 0.56f is 56).  For the start velocities listed below the *)
(* float32 trajectories under +0.56f agree with the hundredths on         *)
(* truncation, on the == 0.0f test and on the < 2.0f test.                 *)
(*                                                                         *)
(* The CollisionChecker is an external collaborator.  Its world does not   *)
(* change while the system runs, so an answer to a query on a box is fixed *)
(* once given; the model keeps the answers given so far in `world` and     *)
(* lets the checker answer a query never made before either way.          *)
(***************************************************************************)
EXTENDS Integers, Sequences, FiniteSets

VARIABLES
  ent,     \* the entity's components
  world,   \* answers the CollisionChecker has given: set of [q, box, ans]
  last,    \* what the last update did with the entity (history)
  ticks,   \* number of update calls so far
  ents,    \* several entities of one update call: id -> components
  proc     \* how far that update call is with each of them: id -> locals

vars == <<ent, world, last, ticks, ents, proc>>

----------------------------------------------------------------------------
\* Bounds and inputs

MaxTicks == 2

\* the ground is at most this many pixels below a falling entity
MaxFall == 8

StartPosition == [x |-> 10, y |-> 10]

VelocitiesX == {-200, 0, 150, 300}
VelocitiesY == {-200, -56, 0, 100, 156, 200, 250}

LocalBoxes == {[x |-> 0, y |-> 0, w |-> 1, h |-> 2]}

----------------------------------------------------------------------------
\* Constants of the gravity model, in hundredths of a pixel per tick

BeginFallVelocity == 100
GravityAcceleration == 56
TerminalVelocity == 200

----------------------------------------------------------------------------
\* Helpers

Abs(n) == IF n < 0 THEN -n ELSE n

\* static_cast<int16_t>(float): the fractional part is dropped, sign kept
Truncate(v) == IF v < 0 THEN -((-v) \div 100) ELSE v \div 100

\* a world box hanging from the position instead of standing on it
toWorldSpaceTopAnchored(bbox, entityPosition) ==
  [x |-> bbox.x + entityPosition.x,
   y |-> bbox.y + entityPosition.y,
   w |-> bbox.w,
   h |-> bbox.h]

\* bbox + Vector(position.x, position.y - (bbox.size.height - 1))
toWorldSpace(bbox, entityPosition) ==
  [x |-> bbox.x + entityPosition.x,
   y |-> bbox.y + (entityPosition.y - (bbox.h - 1)),
   w |-> bbox.w,
   h |-> bbox.h]

Shift(box, dx, dy) == [box EXCEPT !.x = @ + dx, !.y = @ + dy]

MovePos(pos, dx, dy) == [x |-> pos.x + dx, y |-> pos.y + dy]

----------------------------------------------------------------------------
\* The collision checker and the history of one update

Known(w, q, box) == \E r \in w : r.q = q /\ r.box = box

Answer(w, q, box) == (CHOOSE r \in w : r.q = q /\ r.box = box).ans

\* a query made by part `by` ("h", "g" or "v") of update, and its answer
QueryEvent(by, q, box, ans) ==
  [k |-> "query", by |-> by, q |-> q, box |-> box, ans |-> ans,
   dx |-> 0, dy |-> 0]

\* a move of the simulated box and the position by (dx, dy), from `box`
MoveEvent(by, box, dx, dy) ==
  [k |-> "move", by |-> by, q |-> "none", box |-> box, ans |-> FALSE,
   dx |-> dx, dy |-> dy]

Logged(c, ev) == [c EXCEPT !.log = Append(@, ev)]

\* mpCollisionChecker-><q>(box): the set of possible (context, answer)
Query(c, by, q, box) ==
  IF Known(c.world, q, box)
  THEN {[c |-> Logged(c, QueryEvent(by, q, box, Answer(c.world, q, box))),
         ans |-> Answer(c.world, q, box)]}
  ELSE {[c |-> [world |-> c.world \cup {[q |-> q, box |-> box, ans |-> a]},
                log |-> Append(c.log, QueryEvent(by, q, box, a))],
         ans |-> a] : a \in BOOLEAN}

----------------------------------------------------------------------------
\* applyHorizontalMovement

\* a loop that runs one iteration too many
HorizontalStepsLeftOffByOne(step, movementX) == step <= Abs(movementX)

\* for (auto step = 0; step < std::abs(movementX); ++step)
HorizontalStepsLeft(step, movementX) == step < Abs(movementX)

WallQuery(movingRight) ==
  IF movingRight THEN "isTouchingRightWall" ELSE "isTouchingLeftWall"

\* a resolver that walks on although the leading edge is blocked
PlainAdvanceThroughWalls(isTouching) == TRUE

\* if (isTouching) { ... break; } : the plain advance is taken only when
\* the leading edge is free
PlainAdvance(isTouching) == ~isTouching

\* if (!collisionAfterStairStep): the raised box is free on its leading edge
RaisedBoxFree(collisionAfterStairStep) == ~collisionAfterStairStep

\* a stair-step that does not look for ground under the raised box
StairStepWithoutGround(onSolidGround) == TRUE

\* if (mpCollisionChecker->isOnSolidGround(stepUpBbox)): the step is taken
StairStepAccepted(onSolidGround) == onSolidGround

RECURSIVE HorizontalLoop(_, _, _, _, _, _)
HorizontalLoop(c, movingBbox, newPosition, step, movementX, allowStairStepping) ==
  IF ~HorizontalStepsLeft(step, movementX)
  THEN {[c |-> c, pos |-> newPosition]}
  ELSE
    LET movingRight == movementX > 0
        move == IF movingRight THEN 1 ELSE -1
        stepUpBbox == Shift(movingBbox, 0, -1)
        Stop(cc) == {[c |-> cc, pos |-> newPosition]}
        Advance(cc) ==
          HorizontalLoop(Logged(cc, MoveEvent("h", movingBbox, move, 0)),
                         Shift(movingBbox, move, 0),
                         MovePos(newPosition, move, 0),
                         step + 1, movementX, allowStairStepping)
        StairStep(cc) ==
          HorizontalLoop(Logged(cc, MoveEvent("h", movingBbox, move, -1)),
                         Shift(movingBbox, move, -1),
                         MovePos(newPosition, move, -1),
                         step + 1, movementX, allowStairStepping)
        TryStairStep(cc) ==
          UNION {
            IF RaisedBoxFree(u.ans)
            THEN UNION {
                   IF StairStepAccepted(g.ans)
                   THEN StairStep(g.c) ELSE Stop(g.c)
                   : g \in Query(u.c, "h", "isOnSolidGround",
                                 Shift(stepUpBbox, move, 0)) }
            ELSE Stop(u.c)
            : u \in Query(cc, "h", WallQuery(movingRight), stepUpBbox) }
    IN UNION {
         IF PlainAdvance(t.ans) THEN Advance(t.c)
         ELSE IF allowStairStepping THEN TryStairStep(t.c)
         ELSE Stop(t.c)
         : t \in Query(c, "h", WallQuery(movingRight), movingBbox) }

applyHorizontalMovement(c, bbox, currentPosition, movementX, allowStairStepping) ==
  HorizontalLoop(c, bbox, currentPosition, 0, movementX, allowStairStepping)

----------------------------------------------------------------------------
\* applyGravity

\* gravity that accelerates downward motion only
FallingVelocityDownwardOnly(currentVelocity) ==
  IF currentVelocity < 0 THEN currentVelocity
  ELSE IF currentVelocity < TerminalVelocity
  THEN currentVelocity + GravityAcceleration
  ELSE TerminalVelocity

\* gravity that clamps the sum to the terminal velocity
FallingVelocityClampedSum(currentVelocity) ==
  IF currentVelocity + GravityAcceleration < TerminalVelocity
  THEN currentVelocity + GravityAcceleration
  ELSE TerminalVelocity

\* gravity without the terminal velocity
FallingVelocityUnclamped(currentVelocity) ==
  currentVelocity + GravityAcceleration

\* the else branch: if (currentVelocity < 2.0f) return currentVelocity +
\* 0.56f; else return 2.0f;
FallingVelocity(currentVelocity) ==
  IF currentVelocity < TerminalVelocity
  THEN currentVelocity + GravityAcceleration
  ELSE TerminalVelocity

\* gravity that does not look at the ground
RestingVelocityAlwaysFalls(currentVelocity, onSolidGround) ==
  BeginFallVelocity

\* the then branch: grounded keeps the velocity, floating begins to fall
RestingVelocity(currentVelocity, onSolidGround) ==
  IF onSolidGround THEN currentVelocity ELSE BeginFallVelocity

applyGravity(c, bbox, currentVelocity) ==
  IF currentVelocity = 0
  THEN {[c |-> g.c, vel |-> RestingVelocity(currentVelocity, g.ans)]
        : g \in Query(c, "g", "isOnSolidGround", bbox)}
  ELSE {[c |-> c, vel |-> FallingVelocity(currentVelocity)]}

----------------------------------------------------------------------------
\* applyVerticalMovement

\* a loop that leaves out the last step
VerticalStepsLeftOneShort(step, movementY) == step + 1 < Abs(movementY)

\* a loop that runs one iteration too many
VerticalStepsLeftOffByOne(step, movementY) == step <= Abs(movementY)

\* for (auto step = 0; step < std::abs(movementY); ++step)
VerticalStepsLeft(step, movementY) == step < Abs(movementY)

FloorOrCeilingQuery(movingDown) ==
  IF movingDown THEN "isOnSolidGround" ELSE "isTouchingCeiling"

\* a contact rule that never stops the fall
ContactVelocityKeepsFalling(movingDown, beginFallingOnHittingCeiling) ==
  BeginFallVelocity

\* a contact rule that looks at the flag only
ContactVelocityByFlagOnly(movingDown, beginFallingOnHittingCeiling) ==
  IF ~beginFallingOnHittingCeiling THEN 0 ELSE BeginFallVelocity

\* a contact rule without the early fall
ContactVelocityAlwaysZero(movingDown, beginFallingOnHittingCeiling) == 0

\* velocity returned on contact: 0.0f when falling or when the flag is
\* off, 1.0f when a jump hits the ceiling and the flag is on
ContactVelocity(movingDown, beginFallingOnHittingCeiling) ==
  IF movingDown \/ ~beginFallingOnHittingCeiling THEN 0 ELSE BeginFallVelocity

RECURSIVE VerticalLoop(_, _, _, _, _, _, _)
VerticalLoop(c, movingBbox, newPosition, step, currentVelocity, movementY, beginFallingOnHittingCeiling) ==
  IF ~VerticalStepsLeft(step, movementY)
  THEN {[c |-> c, pos |-> newPosition, vel |-> currentVelocity]}
  ELSE
    LET movingDown == movementY > 0
        move == IF movingDown THEN 1 ELSE -1
    IN UNION {
         IF t.ans
         THEN {[c |-> t.c, pos |-> newPosition,
                vel |-> ContactVelocity(movingDown, beginFallingOnHittingCeiling)]}
         ELSE VerticalLoop(Logged(t.c, MoveEvent("v", movingBbox, 0, move)),
                           Shift(movingBbox, 0, move),
                           MovePos(newPosition, 0, move),
                           step + 1, currentVelocity, movementY,
                           beginFallingOnHittingCeiling)
         : t \in Query(c, "v", FloorOrCeilingQuery(movingDown), movingBbox) }

applyVerticalMovement(c, bbox, currentPosition, currentVelocity, movementY, beginFallingOnHittingCeiling) ==
  VerticalLoop(c, bbox, currentPosition, 0, currentVelocity, movementY,
               beginFallingOnHittingCeiling)

----------------------------------------------------------------------------
\* PhysicsSystem::update, for one entity

\* position != originalPosition + WorldPosition{movementX, movementY}
collisionOccured(position, originalPosition, movementX, movementY) ==
  position # MovePos(originalPosition, movementX, movementY)

\* a marker that is only ever added, never removed
setTagAccumulating(hadTag, shouldBeSet) == hadTag \/ shouldBeSet

\* setTag<CollidedWithWorld>(entity, collisionOccured): adds or removes
setTag(hadTag, shouldBeSet) == shouldBeSet

HorizontalPart(c, e, movementX) ==
  IF movementX # 0
  THEN applyHorizontalMovement(c, toWorldSpace(e.bbox, e.pos), e.pos,
                               movementX, e.canStepUpStairs)
  ELSE {[c |-> c, pos |-> e.pos]}

\* gravity that looks under the box the entity had before it moved
GravityPartStaleBox(c, e, bbox) ==
  IF e.gravityAffected
  THEN applyGravity(c, toWorldSpace(e.bbox, e.pos), e.vel.y)
  ELSE {[c |-> c, vel |-> e.vel.y]}

GravityPart(c, e, bbox) ==
  IF e.gravityAffected
  THEN applyGravity(c, bbox, e.vel.y)
  ELSE {[c |-> c, vel |-> e.vel.y]}

\* a vertical movement that begins to fall on every ceiling hit
VerticalPartAlwaysEarlyFall(c, e, bbox, position, velocityY, movementY) ==
  IF movementY # 0
  THEN applyVerticalMovement(c, bbox, position, velocityY, movementY, TRUE)
  ELSE {[c |-> c, pos |-> position, vel |-> velocityY]}

VerticalPart(c, e, bbox, position, velocityY, movementY) ==
  IF movementY # 0
  THEN applyVerticalMovement(c, bbox, position, velocityY, movementY,
                             e.gravityAffected)
  ELSE {[c |-> c, pos |-> position, vel |-> velocityY]}

\* the lambda of update: all outcomes for entity e over the world w
UpdateEntity(e, w) ==
  LET originalPosition == e.pos
      movementX == Truncate(e.vel.x)
      c0 == [world |-> w, log |-> <<>>]
  IN UNION { UNION {
       LET bbox == toWorldSpace(e.bbox, h.pos)
           movementY == Truncate(g.vel)
       IN { [ent |-> [e EXCEPT
                        !.pos = v.pos,
                        !.vel = [x |-> e.vel.x, y |-> v.vel],
                        !.collided =
                          setTag(e.collided,
                                 collisionOccured(v.pos, originalPosition,
                                                  movementX, movementY))],
             world |-> v.c.world,
             last |-> [processed |-> TRUE,
                       before |-> e,
                       posH |-> h.pos,
                       velG |-> g.vel,
                       log |-> v.c.log]]
            : v \in VerticalPart(g.c, e, bbox, h.pos, g.vel, movementY) }
       : g \in GravityPart(h.c, e, toWorldSpace(e.bbox, h.pos)) }
     : h \in HorizontalPart(c0, e, movementX) }

----------------------------------------------------------------------------
\* The system

Init ==
  /\ ent \in [pos : {StartPosition},
              vel : [x : VelocitiesX, y : VelocitiesY],
              bbox : LocalBoxes,
              gravityAffected : BOOLEAN,
              canStepUpStairs : BOOLEAN,
              active : BOOLEAN,
              collided : BOOLEAN]
  /\ world = {}
  /\ last = [processed |-> FALSE, before |-> ent, posH |-> ent.pos,
             velG |-> ent.vel.y, log |-> <<>>]
  /\ ticks = 0
  /\ ents = <<>>
  /\ proc = <<>>

\* an update that also visits entities without the Active component
updateIgnoringActive ==
  /\ ticks < MaxTicks
  /\ ticks' = ticks + 1
  /\ \E r \in UpdateEntity(ent, world) :
       /\ ent' = r.ent
       /\ world' = r.world
       /\ last' = r.last
  /\ UNCHANGED <<ents, proc>>

\* es.each<Physical, WorldPosition, BoundingBox, Active>(lambda)
ForEachActive ==
  IF ent.active
  THEN \E r \in UpdateEntity(ent, world) :
         /\ ent' = r.ent
         /\ world' = r.world
         /\ last' = r.last
  ELSE /\ UNCHANGED <<ent, world>>
       /\ last' = [processed |-> FALSE, before |-> ent, posH |-> ent.pos,
                   velG |-> ent.vel.y, log |-> <<>>]

\* update(es), counted up to MaxTicks calls
update ==
  /\ ticks < MaxTicks
  /\ ticks' = ticks + 1
  /\ ForEachActive
  /\ UNCHANGED <<ents, proc>>

Next == update

Spec == Init /\ [][Next]_vars

----------------------------------------------------------------------------
\* A fall.  A gravity-affected entity without horizontal velocity starts in
\* the air: the collision checker answers no ground under its start box and
\* ground under the box some pixels below; every other answer is open.  The
\* scheduler calls update once per frame, for ever.

FallingEntities ==
  [pos : {StartPosition},
   vel : [x : {0}, y : VelocitiesY],
   bbox : LocalBoxes,
   gravityAffected : {TRUE},
   canStepUpStairs : BOOLEAN,
   active : {TRUE},
   collided : BOOLEAN]

InitFall ==
  /\ ent \in FallingEntities
  /\ \E d \in 1..MaxFall :
       world = {[q |-> "isOnSolidGround",
                 box |-> toWorldSpace(ent.bbox, ent.pos),
                 ans |-> FALSE],
                [q |-> "isOnSolidGround",
                 box |-> Shift(toWorldSpace(ent.bbox, ent.pos), 0, d),
                 ans |-> TRUE]}
  /\ last = [processed |-> FALSE, before |-> ent, posH |-> ent.pos,
             velG |-> ent.vel.y, log |-> <<>>]
  /\ ticks = 0
  /\ ents = <<>>
  /\ proc = <<>>

\* update(es), one frame after the other
updateEveryFrame ==
  /\ ForEachActive
  /\ UNCHANGED <<ticks, ents, proc>>

SpecFall == InitFall /\ [][updateEveryFrame]_vars /\ WF_vars(updateEveryFrame)

----------------------------------------------------------------------------
\* One update call over two entities.  The lambda runs once per Active
\* entity; here its three parts (horizontal movement, gravity, vertical
\* movement with the tag) are steps of their own, so that the entities may
\* be visited in any order and their resolutions may interleave.

Entities == {"e1", "e2"}

FirstEntities ==
  [pos : {StartPosition},
   vel : [x : {0, 150}, y : {-200, 0, 156}],
   bbox : LocalBoxes,
   gravityAffected : BOOLEAN,
   canStepUpStairs : {TRUE},
   active : {TRUE},
   collided : {FALSE}]

SecondEntities ==
  [pos : {StartPosition, MovePos(StartPosition, 1, 0)},
   vel : [x : {0, 150}, y : {-200, 0, 156}],
   bbox : LocalBoxes,
   gravityAffected : BOOLEAN,
   canStepUpStairs : {TRUE},
   active : BOOLEAN,
   collided : {FALSE}]

InitOrder ==
  /\ \E a \in FirstEntities : \E b \in SecondEntities :
       ents = [i \in Entities |-> IF i = "e1" THEN a ELSE b]
  /\ proc = [i \in Entities |->
              [pc |-> IF ents[i].active THEN "horizontal" ELSE "done",
               start |-> ents[i],
               movementX |-> 0,
               bbox |-> toWorldSpace(ents[i].bbox, ents[i].pos)]]
  /\ world = {}
  /\ ent = <<>>
  /\ last = <<>>
  /\ ticks = 0

\* a box cache shared by all entities instead of a local of the lambda
CachedBboxShared(i) == toWorldSpace(ents[i].bbox, ents["e1"].pos)

\* const auto bbox = toWorldSpace(collisionRect, position);
CachedBbox(i) == toWorldSpace(ents[i].bbox, ents[i].pos)

\* originalPosition, movementX and applyHorizontalMovement for entity i
MoveHorizontally(i) ==
  /\ proc[i].pc = "horizontal"
  /\ \E h \in HorizontalPart([world |-> world, log |-> <<>>], ents[i],
                              Truncate(ents[i].vel.x)) :
       /\ ents' = [ents EXCEPT ![i].pos = h.pos]
       /\ world' = h.c.world
  /\ proc' = [proc EXCEPT ![i].pc = "gravity",
                          ![i].movementX = Truncate(ents[i].vel.x)]
  /\ UNCHANGED <<ent, last, ticks>>

\* the cached bbox and applyGravity for entity i
Gravitate(i) ==
  /\ proc[i].pc = "gravity"
  /\ \E g \in GravityPart([world |-> world, log |-> <<>>], ents[i],
                           CachedBbox(i)) :
       /\ ents' = [ents EXCEPT ![i].vel.y = g.vel]
       /\ world' = g.c.world
  /\ proc' = [proc EXCEPT ![i].pc = "vertical", ![i].bbox = CachedBbox(i)]
  /\ UNCHANGED <<ent, last, ticks>>

\* movementY, applyVerticalMovement and setTag for entity i
MoveVertically(i) ==
  /\ proc[i].pc = "vertical"
  /\ LET movementY == Truncate(ents[i].vel.y)
     IN \E v \in VerticalPart([world |-> world, log |-> <<>>], ents[i],
                               proc[i].bbox, ents[i].pos, ents[i].vel.y,
                               movementY) :
          /\ ents' = [ents EXCEPT
                        ![i].pos = v.pos,
                        ![i].vel.y = v.vel,
                        ![i].collided =
                          setTag(ents[i].collided,
                                 collisionOccured(v.pos, proc[i].start.pos,
                                                  proc[i].movementX,
                                                  movementY))]
          /\ world' = v.c.world
  /\ proc' = [proc EXCEPT ![i].pc = "done"]
  /\ UNCHANGED <<ent, last, ticks>>

NextOrder ==
  \E i \in Entities :
    \/ MoveHorizontally(i)
    \/ Gravitate(i)
    \/ MoveVertically(i)

SpecOrder == InitOrder /\ [][NextOrder]_vars

----------------------------------------------------------------------------
\* Reading the history of the last update

Log == last.log

Before == last.before

IsMove(i, by) == Log[i].k = "move" /\ Log[i].by = by

IsQuery(i, by, q) == Log[i].k = "query" /\ Log[i].by = by /\ Log[i].q = q

MovesBefore(i, by) == Cardinality({j \in 1..(i - 1) : IsMove(j, by)})

\* the displacement of the last update and the one it intended
ActualDelta == <<ent.pos.x - Before.pos.x, ent.pos.y - Before.pos.y>>

IntendedDelta == <<Truncate(Before.vel.x), Truncate(last.velG)>>

\* the horizontal resolver left its loop by break
HorizontalStoppedOnContact ==
  MovesBefore(Len(Log) + 1, "h") < Abs(Truncate(Before.vel.x))

\* the vertical resolver returned from inside its loop
VerticalStoppedOnContact ==
  \E i \in DOMAIN Log : Log[i].k = "query" /\ Log[i].by = "v" /\ Log[i].ans

\* some query of a resolver answered contact
ResolverContact ==
  \E i \in DOMAIN Log :
    Log[i].k = "query" /\ Log[i].by \in {"h", "v"} /\ Log[i].ans

----------------------------------------------------------------------------
\* C1: after update has processed the entity, CollidedWithWorld is present
\* iff the displacement of the tick differs from (stepsX, stepsY), stepsY
\* being the truncated velocity.y after gravity; the marker of an earlier
\* tick does not survive.
C1_FlagIffDisplacementDiffers ==
  last.processed => (ent.collided <=> ActualDelta # IntendedDelta)

\* a marker set earlier is removed by a tick that moved the entity as intended
C1_Witness ==
  /\ last.processed
  /\ Before.collided
  /\ ~ent.collided
  /\ ent.pos # Before.pos

\* C2: the marker is present whenever a resolver stopped early on a contact
\* answer, and absent whenever no resolver query answered contact.
C2_FlagRecordsCollision ==
  last.processed =>
    /\ (HorizontalStoppedOnContact \/ VerticalStoppedOnContact) => ent.collided
    /\ ~ResolverContact => ~ent.collided

\* C3: every plain one-pixel advance of the horizontal resolver starts from
\* a box whose leading-edge wall query answered no contact, and every
\* advance of the vertical resolver from a box whose ground query (down) or
\* ceiling query (up) answered no contact.
C3_AdvanceOnlyFromFreeBox ==
  \A i \in DOMAIN Log :
    /\ (IsMove(i, "h") /\ Log[i].dy = 0) =>
         /\ i > 1
         /\ Log[i - 1] = QueryEvent("h", WallQuery(Log[i].dx > 0),
                                    Log[i].box, FALSE)
         /\ [q |-> WallQuery(Log[i].dx > 0), box |-> Log[i].box,
             ans |-> TRUE] \notin world
    /\ IsMove(i, "v") =>
         /\ i > 1
         /\ Log[i - 1] = QueryEvent("v", FloorOrCeilingQuery(Log[i].dy > 0),
                                    Log[i].box, FALSE)
         /\ [q |-> FloorOrCeilingQuery(Log[i].dy > 0), box |-> Log[i].box,
             ans |-> TRUE] \notin world

\* a tick with a plain horizontal advance and a vertical advance
C3_Witness ==
  /\ last.processed
  /\ \E i \in DOMAIN Log : IsMove(i, "h") /\ Log[i].dy = 0
  /\ \E i \in DOMAIN Log : IsMove(i, "v")
  /\ ResolverContact

\* the move at i is a stair-step made under all of its conditions
StairStepAt(i) ==
  /\ i \in DOMAIN Log
  /\ i > 3
  /\ IsMove(i, "h")
  /\ Log[i].dy = -1
  /\ Log[i].dx \in {-1, 1}
  /\ Before.canStepUpStairs
  /\ Log[i - 3] = QueryEvent("h", WallQuery(Log[i].dx > 0), Log[i].box, TRUE)
  /\ Log[i - 2] = QueryEvent("h", WallQuery(Log[i].dx > 0),
                             Shift(Log[i].box, 0, -1), FALSE)
  /\ Log[i - 1] = QueryEvent("h", "isOnSolidGround",
                             Shift(Log[i].box, Log[i].dx, -1), TRUE)

\* C4: a stair-step happens only when the leading-edge query answers
\* contact, canStepUpStairs is true, the raised box is free on the leading
\* edge and the raised and advanced box is on solid ground; a leading-edge
\* contact without all of these ends the loop, and nothing moves after it.
C4_StairStepOnlyUnderItsRule ==
  \A i \in DOMAIN Log :
    /\ (IsMove(i, "h") /\ Log[i].dy # 0) => StairStepAt(i)
    /\ (Log[i].k = "query" /\ Log[i].by = "h" /\ Log[i].ans
        /\ Log[i].q # "isOnSolidGround") =>
         \/ StairStepAt(i + 3)
         \/ \A j \in DOMAIN Log : j > i => ~IsMove(j, "h")

\* a tick in which a stair-step was taken and a later contact stopped the loop
C4_Witness ==
  /\ last.processed
  /\ \E i \in DOMAIN Log : IsMove(i, "h") /\ Log[i].dy = -1
  /\ HorizontalStoppedOnContact

\* the queries applyGravity made in the last update
GravityQueries == {i \in DOMAIN Log : Log[i].k = "query" /\ Log[i].by = "g"}

\* C5: applyGravity returns v (0) for v = 0 on solid ground, 1.0 for v = 0
\* off the ground, v + 0.56 for a nonzero v below 2.0 (negative v too) and
\* 2.0 for v >= 2.0; it asks the collision checker only when v = 0.
C5_GravityCases ==
  (last.processed /\ Before.gravityAffected) =>
    LET v == Before.vel.y
        out == last.velG
    IN /\ v = 0 =>
            /\ Cardinality(GravityQueries) = 1
            /\ \A i \in GravityQueries :
                 /\ Log[i].q = "isOnSolidGround"
                 /\ Log[i].box = toWorldSpace(Before.bbox, last.posH)
                 /\ out = IF Log[i].ans THEN 0 ELSE 100
       /\ v # 0 => GravityQueries = {}
       /\ (v # 0 /\ v < 200) => out = v + 56
       /\ v >= 200 => out = 200

\* gravity was applied to an upward velocity
C5_Witness ==
  /\ last.processed
  /\ Before.gravityAffected
  /\ Before.vel.y < 0
  /\ last.velG = Before.vel.y + 56

\* C6 as stated: applyGravity never returns more than 2.0, and velocity.y
\* of a gravity-affected entity is at most 2.0 at the end of each tick.
C6_AtMostTerminalVelocity ==
  (last.processed /\ Before.gravityAffected) =>
    /\ last.velG <= 200
    /\ ent.vel.y <= 200

\* C6 amended: applyGravity returns at most 2.0 + 0.56 = 2.56, its
\* truncation is at most 2 pixels, and velocity.y of a gravity-affected
\* entity is at most 2.56 at the end of each tick.
C6_AtMostTerminalPlusAcceleration ==
  (last.processed /\ Before.gravityAffected) =>
    /\ last.velG <= 256
    /\ Truncate(last.velG) <= 2
    /\ ent.vel.y <= 256

\* gravity returned more than the terminal velocity and the entity kept it
C6_Witness ==
  /\ last.processed
  /\ Before.gravityAffected
  /\ last.velG > 200
  /\ ent.vel.y > 200

\* C7: moving down, a ground query of the vertical resolver that answers
\* contact ends the function at once, with velocity 0.0 and the position
\* reached by the clear steps before it, whatever the early-fall flag is.
C7_LandingResetsVelocity ==
  (last.processed /\ Truncate(last.velG) > 0) =>
    \A i \in DOMAIN Log :
      (IsQuery(i, "v", "isOnSolidGround") /\ Log[i].ans) =>
        /\ i = Len(Log)
        /\ ent.vel.y = 0
        /\ ent.pos = MovePos(last.posH, 0, MovesBefore(i, "v"))

\* a landing after one clear step with the early-fall flag on
C7_Witness ==
  /\ last.processed
  /\ Before.gravityAffected
  /\ Truncate(last.velG) = 2
  /\ Len(Log) > 0
  /\ IsQuery(Len(Log), "v", "isOnSolidGround")
  /\ Log[Len(Log)].ans
  /\ MovesBefore(Len(Log), "v") = 1
  /\ ent.vel.y = 0

\* C8: moving up, a ceiling query of the vertical resolver that answers
\* contact ends the function at once with the position reached so far, and
\* with velocity 1.0 when the early-fall flag is on, 0.0 when it is off.
C8_CeilingHitVelocity ==
  (last.processed /\ Truncate(last.velG) < 0) =>
    \A i \in DOMAIN Log :
      (IsQuery(i, "v", "isTouchingCeiling") /\ Log[i].ans) =>
        /\ i = Len(Log)
        /\ ent.vel.y = IF Before.gravityAffected THEN 100 ELSE 0
        /\ ent.pos = MovePos(last.posH, 0, -MovesBefore(i, "v"))

\* a jump that hit the ceiling with the flag on and began to fall
C8_Witness ==
  /\ last.processed
  /\ Before.gravityAffected
  /\ Truncate(last.velG) < 0
  /\ Len(Log) > 0
  /\ IsQuery(Len(Log), "v", "isTouchingCeiling")
  /\ Log[Len(Log)].ans
  /\ ent.vel.y = 100

\* the collision checker has answered that the box is on solid ground
Grounded(w, box) ==
  [q |-> "isOnSolidGround", box |-> box, ans |-> TRUE] \in w

\* an Active entity with velocity (0,0), on solid ground or without gravity
Resting(e, w) ==
  /\ e.active
  /\ e.vel.x = 0
  /\ e.vel.y = 0
  /\ ~e.gravityAffected \/ Grounded(w, toWorldSpace(e.bbox, e.pos))

\* C9: a tick leaves a resting entity where it is, with velocity.y = 0 and
\* without the marker, and it is resting again for the next tick.
C9_RestingStaysAtRest ==
  [][Resting(ent, world') =>
       /\ ent'.pos = ent.pos
       /\ ent'.vel.y = 0
       /\ ~ent'.collided
       /\ Resting(ent', world')]_vars

\* a gravity-affected entity has rested on the ground for two ticks
C9_Witness ==
  /\ ticks >= 2
  /\ last.processed
  /\ Before.gravityAffected
  /\ Resting(Before, world)
  /\ Resting(ent, world)
  /\ ent.pos = StartPosition

\* the start box of the last update moved j pixels in its x direction
AheadBox(j) ==
  Shift(toWorldSpace(Before.bbox, Before.pos),
        IF Before.vel.x > 0 THEN j ELSE -j, 0)

LeadingAnswer(j, a) ==
  [q |-> WallQuery(Before.vel.x > 0), box |-> AheadBox(j), ans |-> a] \in world

\* the first leading-edge contact comes after d clear pixels
FirstContactAfter(d) ==
  /\ \A j \in 0..(d - 1) : LeadingAnswer(j, FALSE)
  /\ LeadingAnswer(d, TRUE)

Min(a, b) == IF a < b THEN a ELSE b

\* C10: without stair-stepping and without vertical movement, a tick moves
\* the entity min(d, |stepsX|) pixels in x in the direction of stepsX and 0
\* in y, d being the clear pixels before the first leading-edge contact,
\* and the marker is present iff d < |stepsX|.
C10_HorizontalClipping ==
  LET stepsX == Truncate(Before.vel.x)
      n == Abs(stepsX)
      dir == IF stepsX > 0 THEN 1 ELSE -1
  IN (/\ last.processed
      /\ ~Before.canStepUpStairs
      /\ stepsX # 0
      /\ Before.vel.y = 0
      /\ \/ ~Before.gravityAffected
         \/ Grounded(world, toWorldSpace(Before.bbox, last.posH))) =>
       /\ \A d \in 0..n :
            FirstContactAfter(d) =>
              /\ ActualDelta = <<dir * Min(d, n), 0>>
              /\ ent.collided <=> d < n
       /\ (\A j \in 0..(n - 1) : LeadingAnswer(j, FALSE)) =>
            /\ ActualDelta = <<stepsX, 0>>
            /\ ~ent.collided

\* from (10,10) with velocity (3,0), a wall 2 pixels away: (12,10), marked
C10_Witness ==
  /\ last.processed
  /\ ~Before.canStepUpStairs
  /\ Before.pos = [x |-> 10, y |-> 10]
  /\ Before.vel = [x |-> 300, y |-> 0]
  /\ FirstContactAfter(2)
  /\ ent.pos = [x |-> 12, y |-> 10]
  /\ ent.collided

\* C11: one update changes at most Position, velocity.y and the marker of
\* an Active entity (velocity.x stays, also when a wall clipped the
\* movement), changes nothing of an entity that is not Active, and never
\* changes an answer of the collision checker.
C11_UpdateFrame ==
  [][/\ ent'.vel.x = ent.vel.x
     /\ ent'.bbox = ent.bbox
     /\ ent'.gravityAffected = ent.gravityAffected
     /\ ent'.canStepUpStairs = ent.canStepUpStairs
     /\ ent'.active = ent.active
     /\ ~ent.active => ent' = ent
     /\ world \subseteq world'
     /\ \A r1 \in world' : \A r2 \in world' :
          (r1.q = r2.q /\ r1.box = r2.box) => r1.ans = r2.ans]_vars

\* a tick in which a wall clipped the horizontal movement after some pixels
C11_Witness ==
  /\ last.processed
  /\ HorizontalStoppedOnContact
  /\ ent.pos.x # Before.pos.x
  /\ ent.vel.x = Before.vel.x

\* the update call over the entities has finished
AllDone == \A i \in Entities : proc[i].pc = "done"

\* C12: whatever the order in which update visits the entities and however
\* their resolutions interleave, each entity ends the tick as it would if
\* update had processed it alone over the same world, also when the boxes
\* of the entities overlap; an entity that is not Active is left as it was.
C12_OrderIndependent ==
  AllDone =>
    \A i \in Entities :
      IF proc[i].start.active
      THEN /\ UpdateEntity(proc[i].start, world) # {}
           /\ \A r \in UpdateEntity(proc[i].start, world) :
                /\ r.world = world
                /\ r.ent = ents[i]
      ELSE ents[i] = proc[i].start

\* two Active entities that started in the same box, both moved
C12_Witness ==
  /\ AllDone
  /\ \A i \in Entities : proc[i].start.active
  /\ proc["e1"].start.pos = proc["e2"].start.pos
  /\ \A i \in Entities : ents[i].pos.x # proc[i].start.pos.x
  /\ ents["e1"].pos # ents["e2"].pos

\* the world box of the entity after the horizontal movement of the last tick
PostHorizontalBox ==
  [x |-> Before.bbox.x + last.posH.x,
   y |-> Before.bbox.y + last.posH.y - (Before.bbox.h - 1),
   w |-> Before.bbox.w,
   h |-> Before.bbox.h]

\* C13: a gravity-affected entity with velocity.y = 0 has the ground under
\* its box after the horizontal movement looked at, and when that box is
\* not on solid ground it ends the tick with velocity.y = 1.0 and one pixel
\* below the position the horizontal movement gave it.
C13_SameTickFall ==
  (last.processed /\ Before.gravityAffected /\ Before.vel.y = 0) =>
    /\ Known(world, "isOnSolidGround", PostHorizontalBox)
    /\ [q |-> "isOnSolidGround", box |-> PostHorizontalBox, ans |-> FALSE]
         \in world =>
         /\ ent.vel.y = 100
         /\ ent.pos = [x |-> last.posH.x, y |-> last.posH.y + 1]

\* the entity walked off its place and fell by one pixel in the same tick
C13_Witness ==
  /\ last.processed
  /\ Before.gravityAffected
  /\ Before.vel.y = 0
  /\ last.posH.x # Before.pos.x
  /\ last.posH.y = Before.pos.y
  /\ ent.vel.y = 100
  /\ ent.pos.y = Before.pos.y + 1

\* C14: when the vertical resolver meets no contact in any of its |stepsY|
\* iterations, the position is moved by exactly stepsY in y and velocity.y
\* is the value the resolver was given; an entity whose last step down put
\* it on solid ground keeps its nonzero velocity.y at the end of that tick.
C14_PassThroughWithoutContact ==
  (last.processed /\ Truncate(last.velG) # 0 /\ ~VerticalStoppedOnContact) =>
    /\ ent.pos = [x |-> last.posH.x, y |-> last.posH.y + Truncate(last.velG)]
    /\ ent.vel.y = last.velG

\* the second tick finds the ground right under the box on which the first
\* tick had left the entity with velocity.y = 1.56 after one clear step down
C14_Witness ==
  /\ ticks = 2
  /\ last.processed
  /\ Before.gravityAffected
  /\ Before.vel.y = 156
  /\ Before.pos = [x |-> StartPosition.x, y |-> StartPosition.y + 1]
  /\ last.posH = Before.pos
  /\ Len(Log) = 1
  /\ Log[1] = QueryEvent("v", "isOnSolidGround", PostHorizontalBox, TRUE)
  /\ ent.pos = Before.pos

\* what the horizontal resolver did in the last update, in order
HorizontalEvents == SelectSeq(Log, LAMBDA ev : ev.by = "h")

\* iterations its loop began: one per move, and the one that ended in break
HorizontalIterations ==
  Cardinality({i \in DOMAIN Log : IsMove(i, "h")})
    + (IF /\ Len(HorizontalEvents) > 0
          /\ HorizontalEvents[Len(HorizontalEvents)].k = "query"
       THEN 1 ELSE 0)

\* iterations the loop of the vertical resolver began: one query each
VerticalIterations ==
  Cardinality({i \in DOMAIN Log : Log[i].k = "query" /\ Log[i].by = "v"})

QueryCount == Cardinality({i \in DOMAIN Log : Log[i].k = "query"})

\* C15: the horizontal resolver begins at most |stepsX| iterations and the
\* vertical resolver at most |stepsY|, no move is longer than one pixel per
\* axis, and one entity costs at most 3*|stepsX| + 1 + |stepsY| queries of
\* the collision checker in one tick.
C15_BoundedWork ==
  last.processed =>
    /\ HorizontalIterations <= Abs(Truncate(Before.vel.x))
    /\ VerticalIterations <= Abs(Truncate(last.velG))
    /\ \A i \in DOMAIN Log :
         /\ Log[i].dx \in {-1, 0, 1}
         /\ Log[i].dy \in {-1, 0, 1}
    /\ QueryCount <=
         3 * Abs(Truncate(Before.vel.x)) + 1 + Abs(Truncate(last.velG))

\* a tick that needed every query the bound allows, on both axes
C15_Witness ==
  /\ last.processed
  /\ Truncate(Before.vel.x) # 0
  /\ Truncate(last.velG) # 0
  /\ QueryCount =
       3 * Abs(Truncate(Before.vel.x)) + 1 + Abs(Truncate(last.velG))

\* the entity is at rest on solid ground
Landed ==
  /\ ent.vel.y = 0
  /\ Grounded(world, toWorldSpace(ent.bbox, ent.pos))

\* the last tick moved the entity down without any contact answer
FellWithoutContact ==
  /\ last.processed
  /\ ~VerticalStoppedOnContact
  /\ ent.pos.y > last.posH.y

\* C16: an entity that starts in the air with ground below it is, from some
\* tick on, for ever on solid ground with velocity.y = 0; and when a tick
\* has put it on the ground without a contact answer, the next tick leaves
\* the position, sets velocity.y to 0 and sets CollidedWithWorld.
C16_LandsAndStays ==
  /\ <>[]Landed
  /\ [][(FellWithoutContact
         /\ Grounded(world', toWorldSpace(ent.bbox, ent.pos))) =>
          /\ ent'.pos = ent.pos
          /\ ent'.vel.y = 0
          /\ ent'.collided]_vars

\* the tick after a fall that ended exactly on the ground: nothing moved,
\* the first ground query answered contact, the marker is set
C16_Witness ==
  /\ last.processed
  /\ Before.vel.y > 100
  /\ Before.pos.y > StartPosition.y
  /\ ent.pos = Before.pos
  /\ Len(Log) = 1
  /\ Log[1] = QueryEvent("v", "isOnSolidGround", PostHorizontalBox, TRUE)
  /\ Landed
  /\ ent.collided

\* C17: the vertical resolver of a gravity-affected entity gets a step
\* count of at most 2, so the entity moves down at most 2 pixels per tick;
\* in free fall from rest velocity.y goes 1.0, 1.56, 2.12 and then stays
\* 2.0, with 1, 1, 2, 2, ... pixels per tick.
C17_FreeFallSequence ==
  /\ [](last.processed =>
          /\ Truncate(last.velG) <= 2
          /\ ent.pos.y - Before.pos.y <= 2)
  /\ [][(/\ last'.processed
         /\ \A i \in DOMAIN last'.log :
              last'.log[i].k = "query" => ~last'.log[i].ans) =>
          /\ ent.vel.y = 0 =>
               ent'.vel.y = 100 /\ ent'.pos.y = ent.pos.y + 1
          /\ ent.vel.y = 100 =>
               ent'.vel.y = 156 /\ ent'.pos.y = ent.pos.y + 1
          /\ ent.vel.y = 156 =>
               ent'.vel.y = 212 /\ ent'.pos.y = ent.pos.y + 2
          /\ ent.vel.y = 212 =>
               ent'.vel.y = 200 /\ ent'.pos.y = ent.pos.y + 2
          /\ ent.vel.y = 200 =>
               ent'.vel.y = 200 /\ ent'.pos.y = ent.pos.y + 2]_vars

\* the fourth tick of a free fall from rest: 1 + 1 + 2 + 2 pixels down,
\* velocity.y from 2.12 to 2.0
C17_Witness ==
  /\ last.processed
  /\ Before.vel.y = 212
  /\ ent.vel.y = 200
  /\ ent.pos.y = StartPosition.y + 6
  /\ \A i \in DOMAIN Log : ~Log[i].ans

\* C18: for an entity that is not gravity-affected update does not call the
\* gravity model, velocity.y changes only by being set to 0.0 when the
\* vertical resolver meets ground or ceiling (never to 1.0), and with
\* velocity.y = 0 the vertical resolver moves nothing.
C18_NoGravityNoEarlyFall ==
  (last.processed /\ ~Before.gravityAffected) =>
    /\ GravityQueries = {}
    /\ last.velG = Before.vel.y
    /\ ent.vel.y # Before.vel.y =>
         /\ ent.vel.y = 0
         /\ VerticalStoppedOnContact
    /\ Before.vel.y = 0 =>
         /\ ent.vel.y = 0
         /\ ent.pos.y = last.posH.y
         /\ \A i \in DOMAIN Log : Log[i].by # "v"

\* an entity without gravity rose one pixel, hit the ceiling and stopped
C18_Witness ==
  /\ last.processed
  /\ ~Before.gravityAffected
  /\ Before.vel.y = -200
  /\ Len(Log) > 0
  /\ IsQuery(Len(Log), "v", "isTouchingCeiling")
  /\ Log[Len(Log)].ans
  /\ ent.pos.y = last.posH.y - 1
  /\ ent.vel.y = 0

\* accepted stair-steps of the last update before event i
StairStepsBefore(i) ==
  Cardinality({j \in 1..(i - 1) : IsMove(j, "h") /\ Log[j].dy = -1})

\* C19: applyHorizontalMovement moves the position k pixels in the
\* direction of stepsX, 0 <= k <= |stepsX|, and -s in y, s being the
\* accepted stair-steps, 0 <= s <= k, and s = 0 when stair-stepping is not
\* allowed; at every move the simulated box is the world box of the
\* position reached so far.
C19_HorizontalDisplacement ==
  (last.processed /\ Truncate(Before.vel.x) # 0) =>
    LET dir == IF Truncate(Before.vel.x) > 0 THEN 1 ELSE -1
        k == MovesBefore(Len(Log) + 1, "h")
        steps == StairStepsBefore(Len(Log) + 1)
    IN /\ last.posH = [x |-> Before.pos.x + dir * k,
                       y |-> Before.pos.y - steps]
       /\ 0 <= k
       /\ k <= Abs(Truncate(Before.vel.x))
       /\ 0 <= steps
       /\ steps <= k
       /\ ~Before.canStepUpStairs => steps = 0
       /\ \A i \in DOMAIN Log :
            IsMove(i, "h") =>
              Log[i].box =
                [x |-> Before.bbox.x + Before.pos.x + dir * MovesBefore(i, "h"),
                 y |-> Before.bbox.y + (Before.pos.y - StairStepsBefore(i))
                         - (Before.bbox.h - 1),
                 w |-> Before.bbox.w,
                 h |-> Before.bbox.h]

\* a stair-step followed by a plain step, then a wall: k = 2, s = 1
C19_Witness ==
  /\ last.processed
  /\ Abs(Truncate(Before.vel.x)) = 3
  /\ MovesBefore(Len(Log) + 1, "h") = 2
  /\ StairStepsBefore(Len(Log) + 1) = 1
  /\ Log[4].dy = -1
  /\ last.posH = [x |-> Before.pos.x + 2, y |-> Before.pos.y - 1]

====
